---- MODULE Spec2Model ----
(***************************************************************************)
(* ABCI message protocol layer of tendermint-rs: the Request / Response    *)
(* unions, their partition into method kinds with the per-category         *)
(* narrowed unions (abci/request.rs, abci/response.rs), and the protobuf   *)
(* conversions between the domain types and the pb:: wire types.           *)
(*                                                                         *)
(* Values.  A value of a Rust enum is a record carrying the name of its    *)
(* type in "enum" and of its variant in "tag"; a variant with a payload    *)
(* also has "data".  A pb:: struct is a record carrying its type name in   *)
(* "pb".  Result<T, E> is Ok(v) / Err(e), Option<T> is Some(v) / None.     *)
(***************************************************************************)
EXTENDS Integers, Sequences, FiniteSets, TLC

VARIABLES op, cat, orig, arg, out, sync, last, conn

vars == <<op, cat, orig, arg, out, sync, last, conn>>

-----------------------------------------------------------------------------
(* Bounds of the explored inputs.                                          *)

MaxRefetch == 2

MaxSenders == 2

MaxEvents == 2

MaxChunks == 3

MaxRequests == 3

-----------------------------------------------------------------------------
(* Result and Option.                                                      *)

Ok(v) == [ok |-> TRUE, val |-> v]

Err(e) == [ok |-> FALSE, err |-> e]

Some(v) == [some |-> TRUE, v |-> v]

None == [some |-> FALSE]

SeqsUpTo(S, n) == UNION {[1..k -> S] : k \in 0..n}

-----------------------------------------------------------------------------
(* crate::Error, error.rs.  Only the Other variant is built by the ABCI    *)
(* conversions, always through From<&'static str>.                         *)

Error_other(msg) == [detail |-> "Other", msg |-> msg]

Error_from_str(msg) == Error_other(msg)

(* A panic is an outcome of its own, neither Ok nor Err. *)
Panic == [panic |-> TRUE]

(* From<Infallible> for Error: unreachable!() *)
Error_from_Infallible(never) == Panic

-----------------------------------------------------------------------------
(* Payload domains.                                                        *)

Strings == {"", "ping"}

BytesValues == {<<>>, <<1>>}

U64Values == {0, 1}

PeerIds == {"p", "q"}

ChunkIndexes == {0, 1}

LeafValues == {"a", "b"}

MethodKinds == {"Flush", "Consensus", "Mempool", "Info", "Snapshot"}

Categories == {"Consensus", "Mempool", "Info", "Snapshot"}

RequestTags ==
    {"Echo", "Flush", "Info", "InitChain", "Query", "BeginBlock", "CheckTx",
     "DeliverTx", "EndBlock", "Commit", "ListSnapshots", "OfferSnapshot",
     "LoadSnapshotChunk", "ApplySnapshotChunk"}

RequestUnitTags == {"Flush", "Commit", "ListSnapshots"}

ResponseTags ==
    {"Exception", "Echo", "Flush", "Info", "InitChain", "Query", "BeginBlock",
     "CheckTx", "DeliverTx", "EndBlock", "Commit", "ListSnapshots",
     "OfferSnapshot", "LoadSnapshotChunk", "ApplySnapshotChunk"}

ResponseUnitTags == {"Flush"}

ApplySnapshotChunkResults ==
    {"Unknown", "Accept", "Abort", "Retry", "RetrySnapshot", "RejectSnapshot"}

(* abci::types::Snapshot and abci::event::Event are not among the sources; *)
(* their shape is the one the specification gives.                         *)
Snapshots ==
    [height : {1, 2}, format : {0}, chunks : {2}, hash : BytesValues,
     metadata : {<<>>}]

Events == [kind : {"transfer", "mint"}]

(* Payloads whose struct is not among the sources are flat opaque leaves. *)
Leaves == [leaf : LeafValues]

request_Echo == [message : Strings]

request_Info ==
    [version : Strings, block_version : U64Values, p2p_version : {0},
     abci_version : Strings]

request_DeliverTx == [tx : BytesValues]

request_OfferSnapshot == [snapshot : Snapshots, app_hash : BytesValues]

response_Echo == [message : Strings]

response_BeginBlock == [events : SeqsUpTo(Events, MaxEvents)]

response_ApplySnapshotChunk ==
    [result : ApplySnapshotChunkResults,
     refetch_chunks : SeqsUpTo(ChunkIndexes, MaxRefetch),
     reject_senders : SeqsUpTo(PeerIds, MaxSenders)]

(* impl Default for ApplySnapshotChunkResult *)
ApplySnapshotChunkResult_default == "Unknown"

(* #[derive(Default)] on ApplySnapshotChunk *)
response_ApplySnapshotChunk_default ==
    [result |-> ApplySnapshotChunkResult_default,
     refetch_chunks |-> <<>>,
     reject_senders |-> <<>>]

(* the wire struct none of whose fields is present *)
pb_ResponseApplySnapshotChunk_default ==
    [pb |-> "ResponseApplySnapshotChunk",
     result |-> 0,
     refetch_chunks |-> <<>>,
     reject_senders |-> <<>>]

RequestPayloads(tag) ==
    CASE tag = "Echo" -> request_Echo
      [] tag = "Info" -> request_Info
      [] tag = "DeliverTx" -> request_DeliverTx
      [] tag = "OfferSnapshot" -> request_OfferSnapshot
      [] OTHER -> Leaves

ResponsePayloads(tag) ==
    CASE tag = "Echo" -> response_Echo
      [] tag = "BeginBlock" -> response_BeginBlock
      [] tag = "ApplySnapshotChunk" -> response_ApplySnapshotChunk
      [] OTHER -> Leaves

Unit(enum, tag) == [enum |-> enum, tag |-> tag]

Variant(enum, tag, x) == [enum |-> enum, tag |-> tag, data |-> x]

Requests ==
    {Unit("Request", t) : t \in RequestUnitTags}
    \cup UNION {{Variant("Request", t, x) : x \in RequestPayloads(t)} :
                t \in RequestTags \ RequestUnitTags}

Responses ==
    {Unit("Response", t) : t \in ResponseUnitTags}
    \cup UNION {{Variant("Response", t, x) : x \in ResponsePayloads(t)} :
                t \in ResponseTags \ ResponseUnitTags}

-----------------------------------------------------------------------------
(* Request::kind, request.rs.                                              *)

kind_FlushIsConsensus(req) ==
    CASE req.tag \in {"Flush", "InitChain", "BeginBlock", "DeliverTx",
                      "EndBlock", "Commit"} -> "Consensus"
      [] req.tag = "CheckTx" -> "Mempool"
      [] req.tag \in {"ListSnapshots", "OfferSnapshot", "LoadSnapshotChunk",
                      "ApplySnapshotChunk"} -> "Snapshot"
      [] req.tag \in {"Info", "Query", "Echo"} -> "Info"

kind_OfferSnapshotIsConsensus(req) ==
    CASE req.tag = "Flush" -> "Flush"
      [] req.tag \in {"InitChain", "BeginBlock", "DeliverTx", "EndBlock",
                      "Commit", "OfferSnapshot"} -> "Consensus"
      [] req.tag = "CheckTx" -> "Mempool"
      [] req.tag \in {"ListSnapshots", "LoadSnapshotChunk",
                      "ApplySnapshotChunk"} -> "Snapshot"
      [] req.tag \in {"Info", "Query", "Echo"} -> "Info"

kind_FlushIsInfo(req) ==
    CASE req.tag \in {"InitChain", "BeginBlock", "DeliverTx", "EndBlock",
                      "Commit"} -> "Consensus"
      [] req.tag = "CheckTx" -> "Mempool"
      [] req.tag \in {"ListSnapshots", "OfferSnapshot", "LoadSnapshotChunk",
                      "ApplySnapshotChunk"} -> "Snapshot"
      [] req.tag \in {"Flush", "Info", "Query", "Echo"} -> "Info"

kind_CommitIsInfo(req) ==
    CASE req.tag = "Flush" -> "Flush"
      [] req.tag \in {"InitChain", "BeginBlock", "DeliverTx",
                      "EndBlock"} -> "Consensus"
      [] req.tag = "CheckTx" -> "Mempool"
      [] req.tag \in {"ListSnapshots", "OfferSnapshot", "LoadSnapshotChunk",
                      "ApplySnapshotChunk"} -> "Snapshot"
      [] req.tag \in {"Commit", "Info", "Query", "Echo"} -> "Info"

kind(req) ==
    CASE req.tag = "Flush" -> "Flush"
      [] req.tag = "InitChain" -> "Consensus"
      [] req.tag = "BeginBlock" -> "Consensus"
      [] req.tag = "DeliverTx" -> "Consensus"
      [] req.tag = "EndBlock" -> "Consensus"
      [] req.tag = "Commit" -> "Consensus"
      [] req.tag = "CheckTx" -> "Mempool"
      [] req.tag = "ListSnapshots" -> "Snapshot"
      [] req.tag = "OfferSnapshot" -> "Snapshot"
      [] req.tag = "LoadSnapshotChunk" -> "Snapshot"
      [] req.tag = "ApplySnapshotChunk" -> "Snapshot"
      [] req.tag = "Info" -> "Info"
      [] req.tag = "Query" -> "Info"
      [] req.tag = "Echo" -> "Info"

-----------------------------------------------------------------------------
(* The narrowed request unions: From<CategoryRequest> for Request and      *)
(* TryFrom<Request> for CategoryRequest, request.rs.  Each conversion      *)
(* rebuilds the variant of the same name around the same payload.          *)

Rewrap(enum, v) == [v EXCEPT !.enum = enum]

Request_from_ConsensusRequest(req) == Rewrap("Request", req)

ConsensusRequest_try_from(req) ==
    IF req.tag \in {"InitChain", "BeginBlock", "DeliverTx", "EndBlock",
                    "Commit"}
    THEN Ok(Rewrap("ConsensusRequest", req))
    ELSE Err("wrong request type")

Request_from_MempoolRequest(req) == Rewrap("Request", req)

MempoolRequest_try_from_AlsoCommit(req) ==
    IF req.tag \in {"CheckTx", "Commit"}
    THEN Ok(Rewrap("MempoolRequest", req))
    ELSE Err("wrong request type")

MempoolRequest_try_from(req) ==
    IF req.tag = "CheckTx"
    THEN Ok(Rewrap("MempoolRequest", req))
    ELSE Err("wrong request type")

Request_from_InfoRequest(req) == Rewrap("Request", req)

InfoRequest_try_from(req) ==
    IF req.tag \in {"Info", "Query", "Echo"}
    THEN Ok(Rewrap("InfoRequest", req))
    ELSE Err("wrong request type")

Request_from_SnapshotRequest_Swapped(req) ==
    IF req.tag = "OfferSnapshot"
    THEN [enum |-> "Request", tag |-> "ApplySnapshotChunk", data |-> req.data]
    ELSE Rewrap("Request", req)

Request_from_SnapshotRequest(req) == Rewrap("Request", req)

SnapshotRequest_try_from(req) ==
    IF req.tag \in {"ListSnapshots", "OfferSnapshot", "LoadSnapshotChunk",
                    "ApplySnapshotChunk"}
    THEN Ok(Rewrap("SnapshotRequest", req))
    ELSE Err("wrong request type")

-----------------------------------------------------------------------------
(* The narrowed response unions, response.rs.                              *)

Response_from_ConsensusResponse(req) == Rewrap("Response", req)

ConsensusResponse_try_from(req) ==
    IF req.tag \in {"InitChain", "BeginBlock", "DeliverTx", "EndBlock",
                    "Commit"}
    THEN Ok(Rewrap("ConsensusResponse", req))
    ELSE Err("wrong request type")

Response_from_MempoolResponse(req) == Rewrap("Response", req)

MempoolResponse_try_from(req) ==
    IF req.tag = "CheckTx"
    THEN Ok(Rewrap("MempoolResponse", req))
    ELSE Err("wrong request type")

Response_from_InfoResponse(req) == Rewrap("Response", req)

InfoResponse_try_from_AlsoException(req) ==
    IF req.tag \in {"Echo", "Info", "Query", "Exception"}
    THEN Ok(Rewrap("InfoResponse", req))
    ELSE Err("wrong request type")

InfoResponse_try_from(req) ==
    IF req.tag \in {"Echo", "Info", "Query"}
    THEN Ok(Rewrap("InfoResponse", req))
    ELSE Err("wrong request type")

Response_from_SnapshotResponse(req) == Rewrap("Response", req)

SnapshotResponse_try_from(req) ==
    IF req.tag \in {"ListSnapshots", "OfferSnapshot", "LoadSnapshotChunk",
                    "ApplySnapshotChunk"}
    THEN Ok(Rewrap("SnapshotResponse", req))
    ELSE Err("wrong request type")

-----------------------------------------------------------------------------
(* Dispatch of the conversion traits on the types involved.                *)

IsRequest(m) == m.enum = "Request"

(* CategoryRequest::try_from(m) / CategoryResponse::try_from(m) *)
narrow(c, m) ==
    IF IsRequest(m)
    THEN CASE c = "Consensus" -> ConsensusRequest_try_from(m)
           [] c = "Mempool" -> MempoolRequest_try_from(m)
           [] c = "Info" -> InfoRequest_try_from(m)
           [] c = "Snapshot" -> SnapshotRequest_try_from(m)
    ELSE CASE c = "Consensus" -> ConsensusResponse_try_from(m)
           [] c = "Mempool" -> MempoolResponse_try_from(m)
           [] c = "Info" -> InfoResponse_try_from(m)
           [] c = "Snapshot" -> SnapshotResponse_try_from(m)

(* Request::from(n) / Response::from(n) *)
widen(n) ==
    CASE n.enum = "ConsensusRequest" -> Request_from_ConsensusRequest(n)
      [] n.enum = "MempoolRequest" -> Request_from_MempoolRequest(n)
      [] n.enum = "InfoRequest" -> Request_from_InfoRequest(n)
      [] n.enum = "SnapshotRequest" -> Request_from_SnapshotRequest(n)
      [] n.enum = "ConsensusResponse" -> Response_from_ConsensusResponse(n)
      [] n.enum = "MempoolResponse" -> Response_from_MempoolResponse(n)
      [] n.enum = "InfoResponse" -> Response_from_InfoResponse(n)
      [] n.enum = "SnapshotResponse" -> Response_from_SnapshotResponse(n)

(* The variants each narrowed enum declares. *)
CategoryTags(c, side) ==
    CASE c = "Consensus" ->
           {"InitChain", "BeginBlock", "DeliverTx", "EndBlock", "Commit"}
      [] c = "Mempool" -> {"CheckTx"}
      [] c = "Info" -> {"Info", "Query", "Echo"}
      [] c = "Snapshot" ->
           {"ListSnapshots", "OfferSnapshot", "LoadSnapshotChunk",
            "ApplySnapshotChunk"}

CategoryEnum(c, side) ==
    CASE c = "Consensus" /\ side = "Request" -> "ConsensusRequest"
      [] c = "Mempool" /\ side = "Request" -> "MempoolRequest"
      [] c = "Info" /\ side = "Request" -> "InfoRequest"
      [] c = "Snapshot" /\ side = "Request" -> "SnapshotRequest"
      [] c = "Consensus" /\ side = "Response" -> "ConsensusResponse"
      [] c = "Mempool" /\ side = "Response" -> "MempoolResponse"
      [] c = "Info" /\ side = "Response" -> "InfoResponse"
      [] c = "Snapshot" /\ side = "Response" -> "SnapshotResponse"

CategoryOfEnum(enum) ==
    CHOOSE c \in Categories : \E side \in {"Request", "Response"} :
        CategoryEnum(c, side) = enum

(* Every value of the narrowed enum of category c on one side. *)
Narrowed(c, side) ==
    {Rewrap(CategoryEnum(c, side), m) :
       m \in {x \in (IF side = "Request" THEN Requests ELSE Responses) :
                x.tag \in CategoryTags(c, side)}}

-----------------------------------------------------------------------------
(* Protobuf conversions of the payloads.                                   *)

(* `?` on a Result whose error is &'static str: From<&'static str> for Error *)
QuestionStr(res) == IF res.ok THEN res ELSE Err(Error_from_str(res.err))

(* A wire value that the decode of a nested leaf rejects. *)
Garbage == [garbage |-> TRUE]

IsGarbage(x) == "garbage" \in DOMAIN x

(* Conversions of the payload structs that are not among the sources:     *)
(* the wire struct carries the leaf, and its decode may fail.             *)
pb_leaf_from(name, x) == [pb |-> name, raw |-> x]

leaf_try_from(p) ==
    IF IsGarbage(p.raw)
    THEN Err(Error_from_str("malformed field"))
    ELSE Ok(p.raw)

pb_Snapshot_from(snapshot) == pb_leaf_from("Snapshot", snapshot)

Snapshot_try_from(snapshot) == leaf_try_from(snapshot)

pb_Event_from(event) == pb_leaf_from("Event", event)

Event_try_from(event) == leaf_try_from(event)

(* request/echo.rs *)
pb_RequestEcho_from(echo) == [pb |-> "RequestEcho", message |-> echo.message]

request_Echo_try_from(echo) == Ok([message |-> echo.message])

(* request/info.rs *)
pb_RequestInfo_from(info) ==
    [pb |-> "RequestInfo",
     version |-> info.version,
     block_version |-> info.block_version,
     p2p_version |-> info.p2p_version,
     abci_version |-> info.abci_version]

request_Info_try_from_VersionsMixedUp(info) ==
    Ok([version |-> info.version,
        block_version |-> info.p2p_version,
        p2p_version |-> info.block_version,
        abci_version |-> info.abci_version])

request_Info_try_from(info) ==
    Ok([version |-> info.version,
        block_version |-> info.block_version,
        p2p_version |-> info.p2p_version,
        abci_version |-> info.abci_version])

(* request/deliver_tx.rs *)
pb_RequestDeliverTx_from(deliver_tx) ==
    [pb |-> "RequestDeliverTx", tx |-> deliver_tx.tx]

request_DeliverTx_try_from(deliver_tx) == Ok([tx |-> deliver_tx.tx])

(* request/offer_snapshot.rs *)
pb_RequestOfferSnapshot_from(offer_snapshot) ==
    [pb |-> "RequestOfferSnapshot",
     snapshot |-> Some(pb_Snapshot_from(offer_snapshot.snapshot)),
     app_hash |-> offer_snapshot.app_hash]

request_OfferSnapshot_try_from_DefaultSnapshot(offer_snapshot) ==
    IF ~offer_snapshot.snapshot.some
    THEN Ok([snapshot |-> [height |-> 0, format |-> 0, chunks |-> 0,
                           hash |-> <<>>, metadata |-> <<>>],
             app_hash |-> offer_snapshot.app_hash])
    ELSE LET snapshot == Snapshot_try_from(offer_snapshot.snapshot.v)
         IN  IF ~snapshot.ok
             THEN Err(snapshot.err)
             ELSE Ok([snapshot |-> snapshot.val,
                      app_hash |-> offer_snapshot.app_hash])

request_OfferSnapshot_try_from(offer_snapshot) ==
    IF ~offer_snapshot.snapshot.some
    THEN Err(Error_from_str("missing snapshot"))
    ELSE LET snapshot == Snapshot_try_from(offer_snapshot.snapshot.v)
         IN  IF ~snapshot.ok
             THEN Err(snapshot.err)
             ELSE Ok([snapshot |-> snapshot.val,
                      app_hash |-> offer_snapshot.app_hash])

(* response/echo.rs *)
pb_ResponseEcho_from(echo) ==
    [pb |-> "ResponseEcho", message |-> echo.message]

response_Echo_try_from(echo) == Ok([message |-> echo.message])

(* response/begin_block.rs *)
pb_ResponseBeginBlock_from(begin_block) ==
    [pb |-> "ResponseBeginBlock",
     events |-> [i \in DOMAIN begin_block.events |->
                   pb_Event_from(begin_block.events[i])]]

response_BeginBlock_try_from_SkippingBad(begin_block) ==
    LET results == [i \in DOMAIN begin_block.events |->
                      Event_try_from(begin_block.events[i])]
        good == SelectSeq(results, LAMBDA r : r.ok)
    IN  Ok([events |-> [i \in DOMAIN good |-> good[i].val]])

response_BeginBlock_try_from(begin_block) ==
    LET results == [i \in DOMAIN begin_block.events |->
                      Event_try_from(begin_block.events[i])]
        failed == {i \in DOMAIN results : ~results[i].ok}
    IN  IF failed # {}
        THEN Err(results[CHOOSE i \in failed : \A j \in failed : i <= j].err)
        ELSE Ok([events |-> [i \in DOMAIN results |-> results[i].val]])

ApplySnapshotChunkResult_as_i32_AcceptIsThree(result) ==
    CASE result = "Unknown" -> 0
      [] result = "Accept" -> 3
      [] result = "Abort" -> 2
      [] result = "Retry" -> 1
      [] result = "RetrySnapshot" -> 4
      [] result = "RejectSnapshot" -> 5

ApplySnapshotChunkResult_as_i32_AbortIsFive(result) ==
    CASE result = "Unknown" -> 0
      [] result = "Accept" -> 1
      [] result = "Abort" -> 5
      [] result = "Retry" -> 3
      [] result = "RetrySnapshot" -> 4
      [] result = "RejectSnapshot" -> 2

ApplySnapshotChunkResult_as_i32_RejectIsFour(result) ==
    CASE result = "Unknown" -> 0
      [] result = "Accept" -> 1
      [] result = "Abort" -> 2
      [] result = "Retry" -> 3
      [] result = "RetrySnapshot" -> 5
      [] result = "RejectSnapshot" -> 4

ApplySnapshotChunkResult_as_i32_Renumbered(result) ==
    CASE result = "Unknown" -> 0
      [] result = "Accept" -> 1
      [] result = "Abort" -> 2
      [] result = "RetrySnapshot" -> 3
      [] result = "Retry" -> 4
      [] result = "RejectSnapshot" -> 5

(* response/apply_snapshot_chunk.rs: the #[repr(i32)] discriminants *)
ApplySnapshotChunkResult_as_i32(result) ==
    CASE result = "Unknown" -> 0
      [] result = "Accept" -> 1
      [] result = "Abort" -> 2
      [] result = "Retry" -> 3
      [] result = "RetrySnapshot" -> 4
      [] result = "RejectSnapshot" -> 5

pb_ResponseApplySnapshotChunk_from_NoRefetch(apply_snapshot_chunk) ==
    [pb |-> "ResponseApplySnapshotChunk",
     result |-> ApplySnapshotChunkResult_as_i32(apply_snapshot_chunk.result),
     refetch_chunks |-> <<>>,
     reject_senders |-> apply_snapshot_chunk.reject_senders]

pb_ResponseApplySnapshotChunk_from_NoRejects(apply_snapshot_chunk) ==
    [pb |-> "ResponseApplySnapshotChunk",
     result |-> ApplySnapshotChunkResult_as_i32(apply_snapshot_chunk.result),
     refetch_chunks |-> apply_snapshot_chunk.refetch_chunks,
     reject_senders |-> <<>>]

pb_ResponseApplySnapshotChunk_from_Reversed(apply_snapshot_chunk) ==
    LET chunks == apply_snapshot_chunk.refetch_chunks
    IN  [pb |-> "ResponseApplySnapshotChunk",
         result |-> ApplySnapshotChunkResult_as_i32(apply_snapshot_chunk.result),
         refetch_chunks |->
            [i \in DOMAIN chunks |-> chunks[Len(chunks) + 1 - i]],
         reject_senders |-> apply_snapshot_chunk.reject_senders]

pb_ResponseApplySnapshotChunk_from(apply_snapshot_chunk) ==
    [pb |-> "ResponseApplySnapshotChunk",
     result |-> ApplySnapshotChunkResult_as_i32(apply_snapshot_chunk.result),
     refetch_chunks |-> apply_snapshot_chunk.refetch_chunks,
     reject_senders |-> apply_snapshot_chunk.reject_senders]

response_ApplySnapshotChunk_try_from_SendersReversed(apply_snapshot_chunk) ==
    LET result ==
          CASE apply_snapshot_chunk.result = 0 -> Ok("Unknown")
            [] apply_snapshot_chunk.result = 1 -> Ok("Accept")
            [] apply_snapshot_chunk.result = 2 -> Ok("Abort")
            [] apply_snapshot_chunk.result = 3 -> Ok("Retry")
            [] apply_snapshot_chunk.result = 4 -> Ok("RetrySnapshot")
            [] apply_snapshot_chunk.result = 5 -> Ok("RejectSnapshot")
            [] OTHER -> Err(Error_from_str("unknown snapshot chunk result"))
        senders == apply_snapshot_chunk.reject_senders
    IN  IF ~result.ok
        THEN result
        ELSE Ok([result |-> result.val,
                 refetch_chunks |-> apply_snapshot_chunk.refetch_chunks,
                 reject_senders |->
                    [i \in DOMAIN senders |-> senders[Len(senders) + 1 - i]]])

response_ApplySnapshotChunk_try_from_ZeroIsError(apply_snapshot_chunk) ==
    LET result ==
          CASE apply_snapshot_chunk.result = 1 -> Ok("Accept")
            [] apply_snapshot_chunk.result = 2 -> Ok("Abort")
            [] apply_snapshot_chunk.result = 3 -> Ok("Retry")
            [] apply_snapshot_chunk.result = 4 -> Ok("RetrySnapshot")
            [] apply_snapshot_chunk.result = 5 -> Ok("RejectSnapshot")
            [] OTHER -> Err(Error_from_str("unknown snapshot chunk result"))
    IN  IF ~result.ok
        THEN result
        ELSE Ok([result |-> result.val,
                 refetch_chunks |-> apply_snapshot_chunk.refetch_chunks,
                 reject_senders |-> apply_snapshot_chunk.reject_senders])

response_ApplySnapshotChunk_try_from_Truncating(apply_snapshot_chunk) ==
    LET result ==
          CASE apply_snapshot_chunk.result = 1 -> "Accept"
            [] apply_snapshot_chunk.result = 2 -> "Abort"
            [] apply_snapshot_chunk.result = 3 -> "Retry"
            [] apply_snapshot_chunk.result = 4 -> "RetrySnapshot"
            [] apply_snapshot_chunk.result = 5 -> "RejectSnapshot"
            [] OTHER -> "Unknown"
    IN  Ok([result |-> result,
            refetch_chunks |-> apply_snapshot_chunk.refetch_chunks,
            reject_senders |-> apply_snapshot_chunk.reject_senders])

response_ApplySnapshotChunk_try_from_FiveIsRetrySnapshot(apply_snapshot_chunk) ==
    LET result ==
          CASE apply_snapshot_chunk.result = 0 -> Ok("Unknown")
            [] apply_snapshot_chunk.result = 1 -> Ok("Accept")
            [] apply_snapshot_chunk.result = 2 -> Ok("Abort")
            [] apply_snapshot_chunk.result = 3 -> Ok("Retry")
            [] apply_snapshot_chunk.result \in {4, 5} -> Ok("RetrySnapshot")
            [] OTHER -> Err(Error_from_str("unknown snapshot chunk result"))
    IN  IF ~result.ok
        THEN result
        ELSE Ok([result |-> result.val,
                 refetch_chunks |-> apply_snapshot_chunk.refetch_chunks,
                 reject_senders |-> apply_snapshot_chunk.reject_senders])

response_ApplySnapshotChunk_try_from_ThreeIsAccept(apply_snapshot_chunk) ==
    LET result ==
          CASE apply_snapshot_chunk.result = 0 -> Ok("Unknown")
            [] apply_snapshot_chunk.result \in {1, 3} -> Ok("Accept")
            [] apply_snapshot_chunk.result = 2 -> Ok("Abort")
            [] apply_snapshot_chunk.result = 4 -> Ok("RetrySnapshot")
            [] apply_snapshot_chunk.result = 5 -> Ok("RejectSnapshot")
            [] OTHER -> Err(Error_from_str("unknown snapshot chunk result"))
    IN  IF ~result.ok
        THEN result
        ELSE Ok([result |-> result.val,
                 refetch_chunks |-> apply_snapshot_chunk.refetch_chunks,
                 reject_senders |-> apply_snapshot_chunk.reject_senders])

response_ApplySnapshotChunk_try_from_TwoIsAccept(apply_snapshot_chunk) ==
    LET result ==
          CASE apply_snapshot_chunk.result = 0 -> Ok("Unknown")
            [] apply_snapshot_chunk.result \in {1, 2} -> Ok("Accept")
            [] apply_snapshot_chunk.result = 3 -> Ok("Retry")
            [] apply_snapshot_chunk.result = 4 -> Ok("RetrySnapshot")
            [] apply_snapshot_chunk.result = 5 -> Ok("RejectSnapshot")
            [] OTHER -> Err(Error_from_str("unknown snapshot chunk result"))
    IN  IF ~result.ok
        THEN result
        ELSE Ok([result |-> result.val,
                 refetch_chunks |-> apply_snapshot_chunk.refetch_chunks,
                 reject_senders |-> apply_snapshot_chunk.reject_senders])

response_ApplySnapshotChunk_try_from_ZeroIsAccept(apply_snapshot_chunk) ==
    LET result ==
          CASE apply_snapshot_chunk.result \in {0, 1} -> Ok("Accept")
            [] apply_snapshot_chunk.result = 2 -> Ok("Abort")
            [] apply_snapshot_chunk.result = 3 -> Ok("Retry")
            [] apply_snapshot_chunk.result = 4 -> Ok("RetrySnapshot")
            [] apply_snapshot_chunk.result = 5 -> Ok("RejectSnapshot")
            [] OTHER -> Err(Error_from_str("unknown snapshot chunk result"))
    IN  IF ~result.ok
        THEN result
        ELSE Ok([result |-> result.val,
                 refetch_chunks |-> apply_snapshot_chunk.refetch_chunks,
                 reject_senders |-> apply_snapshot_chunk.reject_senders])

response_ApplySnapshotChunk_try_from(apply_snapshot_chunk) ==
    LET result ==
          CASE apply_snapshot_chunk.result = 0 -> Ok("Unknown")
            [] apply_snapshot_chunk.result = 1 -> Ok("Accept")
            [] apply_snapshot_chunk.result = 2 -> Ok("Abort")
            [] apply_snapshot_chunk.result = 3 -> Ok("Retry")
            [] apply_snapshot_chunk.result = 4 -> Ok("RetrySnapshot")
            [] apply_snapshot_chunk.result = 5 -> Ok("RejectSnapshot")
            [] OTHER -> Err(Error_from_str("unknown snapshot chunk result"))
    IN  IF ~result.ok
        THEN result
        ELSE Ok([result |-> result.val,
                 refetch_chunks |-> apply_snapshot_chunk.refetch_chunks,
                 reject_senders |-> apply_snapshot_chunk.reject_senders])

-----------------------------------------------------------------------------
(* Protobuf conversions of Request, request.rs.                            *)

Value(tag, body) == [oneof |-> tag, body |-> body]

pb_default(name) == [pb |-> name]

request_payload_into(tag, x) ==
    CASE tag = "Echo" -> pb_RequestEcho_from(x)
      [] tag = "Info" -> pb_RequestInfo_from(x)
      [] tag = "DeliverTx" -> pb_RequestDeliverTx_from(x)
      [] tag = "OfferSnapshot" -> pb_RequestOfferSnapshot_from(x)
      [] OTHER -> pb_leaf_from("Request" \o tag, x)

request_payload_try_into(tag, x) ==
    CASE tag = "Echo" -> QuestionStr(request_Echo_try_from(x))
      [] tag = "Info" -> QuestionStr(request_Info_try_from(x))
      [] tag = "DeliverTx" -> request_DeliverTx_try_from(x)
      [] tag = "OfferSnapshot" -> request_OfferSnapshot_try_from(x)
      [] OTHER -> leaf_try_from(x)

pb_Request_from(request) ==
    LET value ==
          CASE request.tag = "Flush" ->
                 Some(Value("Flush", pb_default("RequestFlush")))
            [] request.tag = "Commit" ->
                 Some(Value("Commit", pb_default("RequestCommit")))
            [] request.tag = "ListSnapshots" ->
                 Some(Value("ListSnapshots",
                            pb_default("RequestListSnapshots")))
            [] OTHER ->
                 Some(Value(request.tag,
                            request_payload_into(request.tag, request.data)))
    IN  [pb |-> "Request", value |-> value]

Request_try_from_DefaultOnNone(request) ==
    IF ~request.value.some
    THEN Ok(Unit("Request", "Flush"))
    ELSE LET tag == request.value.v.oneof
             x == request.value.v.body
         IN  IF tag \in {"Flush", "Commit", "ListSnapshots"}
             THEN Ok(Unit("Request", tag))
             ELSE LET payload == request_payload_try_into(tag, x)
                  IN  IF ~payload.ok
                      THEN Err(payload.err)
                      ELSE Ok(Variant("Request", tag, payload.val))

Request_try_from(request) ==
    IF ~request.value.some
    THEN Err(Error_from_str("no request in proto"))
    ELSE LET tag == request.value.v.oneof
             x == request.value.v.body
         IN  IF tag \in {"Flush", "Commit", "ListSnapshots"}
             THEN Ok(Unit("Request", tag))
             ELSE LET payload == request_payload_try_into(tag, x)
                  IN  IF ~payload.ok
                      THEN Err(payload.err)
                      ELSE Ok(Variant("Request", tag, payload.val))

-----------------------------------------------------------------------------
(* Protobuf conversions of Response, response.rs.                          *)

response_payload_into(tag, x) ==
    CASE tag = "Echo" -> pb_ResponseEcho_from(x)
      [] tag = "BeginBlock" -> pb_ResponseBeginBlock_from(x)
      [] tag = "ApplySnapshotChunk" -> pb_ResponseApplySnapshotChunk_from(x)
      [] OTHER -> pb_leaf_from("Response" \o tag, x)

response_payload_try_into(tag, x) ==
    CASE tag = "Echo" -> QuestionStr(response_Echo_try_from(x))
      [] tag = "BeginBlock" -> response_BeginBlock_try_from(x)
      [] tag = "ApplySnapshotChunk" -> response_ApplySnapshotChunk_try_from(x)
      [] OTHER -> leaf_try_from(x)

pb_Response_from_FlushUnset(response) ==
    LET value ==
          CASE response.tag = "Flush" -> None
            [] OTHER ->
                 Some(Value(response.tag,
                            response_payload_into(response.tag,
                                                  response.data)))
    IN  [pb |-> "Response", value |-> value]

pb_Response_from(response) ==
    LET value ==
          CASE response.tag = "Flush" ->
                 Some(Value("Flush", pb_default("ResponseFlush")))
            [] OTHER ->
                 Some(Value(response.tag,
                            response_payload_into(response.tag,
                                                  response.data)))
    IN  [pb |-> "Response", value |-> value]

Response_try_from_Unwrapping(response) ==
    IF ~response.value.some
    THEN Err(Error_from_str("no response in proto"))
    ELSE LET tag == response.value.v.oneof
             x == response.value.v.body
         IN  IF tag = "Flush"
             THEN Ok(Unit("Response", tag))
             ELSE LET payload == response_payload_try_into(tag, x)
                  IN  IF ~payload.ok
                      THEN Panic
                      ELSE Ok(Variant("Response", tag, payload.val))

Response_try_from(response) ==
    IF ~response.value.some
    THEN Err(Error_from_str("no response in proto"))
    ELSE LET tag == response.value.v.oneof
             x == response.value.v.body
         IN  IF tag = "Flush"
             THEN Ok(Unit("Response", tag))
             ELSE LET payload == response_payload_try_into(tag, x)
                  IN  IF ~payload.ok
                      THEN Err(payload.err)
                      ELSE Ok(Variant("Response", tag, payload.val))

(* Protobuf::encode / Protobuf::decode, up to the byte framing *)
encode(m) == IF IsRequest(m) THEN pb_Request_from(m) ELSE pb_Response_from(m)

decode(w) ==
    IF w.pb = "Request" THEN Request_try_from(w) ELSE Response_try_from(w)

-----------------------------------------------------------------------------
(* Wire values a peer can send.                                            *)

WireResults == (-2 .. 8) \cup {-2147483647 - 1, 2147483647}

PbLeaves(name, S) == {[pb |-> name, raw |-> x] : x \in S \cup {Garbage}}

PbRequestBodies(tag) ==
    CASE tag \in RequestUnitTags -> {pb_default("Request" \o tag)}
      [] tag = "Echo" -> [pb : {"RequestEcho"}, message : Strings]
      [] tag = "Info" ->
           [pb : {"RequestInfo"}, version : Strings,
            block_version : U64Values, p2p_version : {0},
            abci_version : Strings]
      [] tag = "DeliverTx" -> [pb : {"RequestDeliverTx"}, tx : BytesValues]
      [] tag = "OfferSnapshot" ->
           [pb : {"RequestOfferSnapshot"},
            snapshot : {None} \cup {Some(s) : s \in PbLeaves("Snapshot",
                                                             Snapshots)},
            app_hash : BytesValues]
      [] OTHER -> PbLeaves("Request" \o tag, Leaves)

PbResponseBodies(tag) ==
    CASE tag \in ResponseUnitTags -> {pb_default("Response" \o tag)}
      [] tag = "Echo" -> [pb : {"ResponseEcho"}, message : Strings]
      [] tag = "BeginBlock" ->
           [pb : {"ResponseBeginBlock"},
            events : SeqsUpTo(PbLeaves("Event", Events), MaxEvents)]
      [] tag = "ApplySnapshotChunk" ->
           [pb : {"ResponseApplySnapshotChunk"},
            result : WireResults,
            refetch_chunks : SeqsUpTo(ChunkIndexes, MaxRefetch),
            reject_senders : SeqsUpTo(PeerIds, MaxSenders)]
      [] OTHER -> PbLeaves("Response" \o tag, Leaves)

PbRequests ==
    {[pb |-> "Request", value |-> None]}
    \cup UNION {{[pb |-> "Request", value |-> Some(Value(t, b))] :
                   b \in PbRequestBodies(t)} : t \in RequestTags}

PbResponses ==
    {[pb |-> "Response", value |-> None]}
    \cup UNION {{[pb |-> "Response", value |-> Some(Value(t, b))] :
                   b \in PbResponseBodies(t)} : t \in ResponseTags}

-----------------------------------------------------------------------------
(* The snapshot sync protocol.  Its state belongs to the consensus engine, *)
(* which is not part of this crate: the transitions below are those the    *)
(* specification and the documentation of Request::OfferSnapshot,          *)
(* Request::ApplySnapshotChunk and response::ApplySnapshotChunk describe.  *)
(* The application's answer reaches the engine as the wire struct that     *)
(* From<ApplySnapshotChunk> for pb::ResponseApplySnapshotChunk builds.     *)
(*                                                                         *)
(* sync.phase     state of the protocol                                    *)
(* sync.snapshot  the snapshot being restored, 0 when there is none        *)
(* sync.offers    the candidates peers advertise and not yet discarded     *)
(* sync.awaiting  the request the application has not answered yet         *)
(* sync.chunk     the last chunk delivered: its index and its sender       *)
(* sync.applied   indexes of the chunks the application accepted           *)
(* sync.queue     the chunks to refetch and reapply, first to last         *)
(* sync.fetched   per chunk index, the peer whose copy the engine holds    *)
(* sync.banned    the peers rejected so far                                *)
(* sync.accepted  the snapshot whose offer the application accepted, or 0  *)
(* sync.inflight  the requests issued and not answered yet, oldest first   *)
(* sync.info      the Info response of the completion check, once given    *)
(* last           history: the result of the chunk answer handled last,    *)
(*                or "Timeout" for a fetch timeout; "none" once a later    *)
(*                chunk is delivered                                       *)

SnapshotIds == {1, 2}

ChunkRange == 0 .. MaxChunks - 1

NoChunk == [index |-> -1, sender |-> "none"]

NothingFetched == [i \in ChunkRange |-> "none"]

NoInfo == [none |-> TRUE]

SyncStart ==
    [phase |-> "NoSnapshot",
     snapshot |-> 0,
     offers |-> [snapshot : SnapshotIds, sender : PeerIds],
     awaiting |-> "none",
     chunk |-> NoChunk,
     applied |-> {},
     queue |-> <<>>,
     fetched |-> NothingFetched,
     banned |-> {},
     accepted |-> 0,
     inflight |-> <<>>,
     info |-> NoInfo]

Range(q) == {q[i] : i \in DOMAIN q}

Without(q, S) == SelectSeq(q, LAMBDA x : x \notin S)

(* the list without the later repetitions of an element *)
Dedup(q) ==
    LET F[i \in 0 .. Len(q)] ==
          IF i = 0 THEN <<>>
          ELSE IF q[i] \in Range(F[i - 1]) THEN F[i - 1]
               ELSE Append(F[i - 1], q[i])
    IN  F[Len(q)]

(* The chunk normal progression is at: the lowest index neither accepted   *)
(* nor waiting to be reapplied; MaxChunks when there is none.              *)
Progress(s) ==
    LET missing == ChunkRange \ (s.applied \cup Range(s.queue))
    IN  IF missing = {} THEN MaxChunks
        ELSE CHOOSE i \in missing : \A j \in missing : i <= j

(* The chunk the engine delivers next: refetched chunks come first. *)
NextChunk(s) == IF s.queue # <<>> THEN Head(s.queue) ELSE Progress(s)

(* The engine gives the current snapshot up and waits to offer another. *)
Abandon(s) ==
    [s EXCEPT !.phase = "AwaitingNewOffer",
              !.awaiting = "none",
              !.offers = {o \in @ : o.snapshot # s.snapshot},
              !.snapshot = 0,
              !.accepted = 0,
              !.chunk = NoChunk,
              !.applied = {},
              !.queue = <<>>,
              !.fetched = NothingFetched]

(* The engine issues OfferSnapshot for candidate o. *)
OfferSnapshot(s, o) ==
    [s EXCEPT !.phase = "Offered", !.snapshot = o.snapshot,
              !.awaiting = "offer",
              !.inflight = Append(@, "OfferSnapshot")]

OnOfferResponse_AlwaysApplying(s, accept) ==
    [s EXCEPT !.phase = "Applying", !.awaiting = "none",
              !.accepted = IF accept THEN s.snapshot ELSE @,
              !.inflight = Tail(@)]

(* The application accepts or rejects the offer. *)
OnOfferResponse(s, accept) ==
    IF accept
    THEN [s EXCEPT !.phase = "Applying", !.awaiting = "none",
                   !.accepted = s.snapshot, !.inflight = Tail(@)]
    ELSE Abandon([s EXCEPT !.inflight = Tail(@)])

(* The engine delivers ApplySnapshotChunk(index, chunk, sender). *)
DeliverChunk(s) ==
    [s EXCEPT !.awaiting = "chunk",
              !.inflight = Append(@, "ApplySnapshotChunk"),
              !.chunk = [index |-> NextChunk(s),
                         sender |-> s.fetched[NextChunk(s)]]]

(* The engine decodes the answer b, a pb::ResponseApplySnapshotChunk, and  *)
(* acts on it; an answer that does not decode counts as Unknown.           *)
OnChunkResponse(s, b) ==
    LET answer == response_ApplySnapshotChunk_try_from(b)
        result == IF answer.ok THEN answer.val.result ELSE "Unknown"
        listed == IF answer.ok THEN Dedup(answer.val.refetch_chunks)
                  ELSE <<>>
        banned == s.banned \cup (IF answer.ok
                                 THEN Range(answer.val.reject_senders)
                                 ELSE {})
        remaining == IF result = "Accept"
                     THEN Without(s.queue, {s.chunk.index})
                     ELSE s.queue
        applied ==
          CASE result = "Accept" ->
                 (s.applied \cup {s.chunk.index}) \ Range(listed)
            [] result = "RetrySnapshot" -> {}
            [] OTHER -> s.applied \ Range(listed)
        t == [s EXCEPT
                !.awaiting = "none",
                !.inflight = Tail(@),
                !.banned = banned,
                !.applied = applied,
                !.queue = listed \o Without(remaining, Range(listed)),
                !.fetched =
                   [i \in ChunkRange |->
                      IF \/ i \in Range(listed)
                         \/ @[i] \in banned /\ i \notin applied
                      THEN "none"
                      ELSE @[i]],
                !.offers = {o \in @ : o.sender \notin banned}]
    IN  CASE result \in {"Accept", "Retry"} -> t
          [] result = "RetrySnapshot" ->
               [t EXCEPT !.phase = "Offered", !.awaiting = "offer",
                         !.accepted = 0,
                         !.inflight = Append(@, "OfferSnapshot")]
          [] result = "RejectSnapshot" -> Abandon(t)
          [] OTHER -> [t EXCEPT !.phase = "Aborted"]

(* No peer supplied the next chunk in time: the snapshot counts as        *)
(* rejected.                                                               *)
OnFetchTimeout(s) == Abandon(s)

(* The engine asks Info once every chunk is accepted. *)
AskInfo(s) ==
    [s EXCEPT !.awaiting = "info", !.inflight = Append(@, "Info")]

(* What the light client verified for the snapshot's height. *)
VerifiedHeader(id) ==
    [last_block_height |-> id, last_block_app_hash |-> <<1>>]

InfoAnswers ==
    [last_block_height : SnapshotIds, last_block_app_hash : BytesValues]

(* The engine compares the Info response with the verified header. *)
OnInfoResponse(s, info) ==
    [s EXCEPT !.awaiting = "none",
              !.inflight = Tail(@),
              !.info = info,
              !.phase =
                 IF /\ info.last_block_height
                         = VerifiedHeader(s.snapshot).last_block_height
                    /\ info.last_block_app_hash
                         = VerifiedHeader(s.snapshot).last_block_app_hash
                 THEN "Completed"
                 ELSE "Failed"]

(* The answers the application gives.  The engine reads reject_senders as *)
(* a set of peers, so one list stands for each set.                        *)
RefetchLists == SeqsUpTo(ChunkIndexes, MaxRefetch)

SenderLists ==
    {CHOOSE q \in SeqsUpTo(PeerIds, MaxSenders) :
        Range(q) = S /\ Len(q) = Cardinality(S) :
     S \in {T \in SUBSET PeerIds : Cardinality(T) <= MaxSenders}}

Answer(result, refetch_chunks, reject_senders) ==
    [result |-> result,
     refetch_chunks |-> refetch_chunks,
     reject_senders |-> reject_senders]

SyncAnswers ==
    {Answer(x, f, j) : x \in ApplySnapshotChunkResults,
                       f \in RefetchLists, j \in SenderLists}

(* What the engine receives when the application answers with r. *)
AppAnswer(r) ==
    pb_Response_from(Variant("Response", "ApplySnapshotChunk", r)).value.v.body

EngineOffers ==
    /\ sync.phase \in {"NoSnapshot", "AwaitingNewOffer"}
    /\ sync.awaiting = "none"
    /\ \E o \in sync.offers :
        /\ o.sender \notin sync.banned
        /\ sync' = OfferSnapshot(sync, o)
    /\ UNCHANGED <<op, cat, orig, arg, out, last, conn>>

AppAnswersOffer ==
    /\ sync.awaiting = "offer"
    /\ \E accept \in BOOLEAN : sync' = OnOfferResponse(sync, accept)
    /\ UNCHANGED <<op, cat, orig, arg, out, last, conn>>

PeerSuppliesChunk ==
    /\ sync.phase = "Applying"
    /\ \E i \in ChunkRange, p \in PeerIds \ sync.banned :
        /\ sync.fetched[i] = "none"
        /\ i \notin sync.applied
        /\ sync' = [sync EXCEPT !.fetched[i] = p]
    /\ UNCHANGED <<op, cat, orig, arg, out, last, conn>>

EngineDeliversChunk ==
    /\ sync.phase = "Applying"
    /\ sync.awaiting = "none"
    /\ NextChunk(sync) \in ChunkRange
    /\ sync.fetched[NextChunk(sync)] # "none"
    /\ sync' = DeliverChunk(sync)
    /\ last' = "none"
    /\ UNCHANGED <<op, cat, orig, arg, out, conn>>

AppAnswersChunk ==
    /\ sync.awaiting = "chunk"
    /\ \E r \in SyncAnswers :
        /\ sync' = OnChunkResponse(sync, AppAnswer(r))
        /\ last' = r.result
    /\ UNCHANGED <<op, cat, orig, arg, out, conn>>

(* no peer supplied the next chunk in time *)
FetchTimeout ==
    /\ sync.phase = "Applying"
    /\ sync.awaiting = "none"
    /\ NextChunk(sync) \in ChunkRange
    /\ sync.fetched[NextChunk(sync)] = "none"
    /\ sync' = OnFetchTimeout(sync)
    /\ last' = "Timeout"
    /\ UNCHANGED <<op, cat, orig, arg, out, conn>>

(* every chunk is accepted: the engine asks Info *)
EngineAsksInfo ==
    /\ sync.phase = "Applying"
    /\ sync.awaiting = "none"
    /\ NextChunk(sync) = MaxChunks
    /\ sync' = AskInfo(sync)
    /\ UNCHANGED <<op, cat, orig, arg, out, last, conn>>

AppAnswersInfo ==
    /\ sync.awaiting = "info"
    /\ \E info \in InfoAnswers : sync' = OnInfoResponse(sync, info)
    /\ UNCHANGED <<op, cat, orig, arg, out, last, conn>>

(* normal operation: the engine issues a request of the Consensus kind *)
EngineIssuesConsensus ==
    /\ sync.phase = "Completed"
    /\ sync.inflight = <<>>
    /\ \E tag \in RequestTags :
        /\ kind(Unit("Request", tag)) = "Consensus"
        /\ sync' = [sync EXCEPT !.awaiting = "consensus",
                                !.inflight = Append(@, tag)]
    /\ UNCHANGED <<op, cat, orig, arg, out, last, conn>>

AppAnswersConsensus ==
    /\ sync.awaiting = "consensus"
    /\ sync' = [sync EXCEPT !.awaiting = "none", !.inflight = Tail(@)]
    /\ UNCHANGED <<op, cat, orig, arg, out, last, conn>>

-----------------------------------------------------------------------------
(* One connection between the caller and the application, as the           *)
(* dispatcher serves it.  The dispatcher is not part of this crate; it     *)
(* routes each request by Request::kind and owes the caller the ordering   *)
(* the kinds stand for.                                                    *)
(*                                                                         *)
(* conn is the sequence of the requests issued on the connection, oldest   *)
(* first; each has the tag of its variant and a stage:                     *)
(*   "issued"     written by the caller, not yet handed to the application *)
(*   "running"    handed to the application, which has not answered        *)
(*   "answered"   the response exists, the caller has not seen it          *)
(*   "delivered"  the caller has the response                              *)

ConnTags == {"Flush", "Echo", "CheckTx", "DeliverTx", "Commit"}

ConnKind(c, i) == kind(Unit("Request", c[i].tag))

Done(c, i) == c[i].stage \in {"answered", "delivered"}

(* A Consensus request waits for every Consensus request before it to be   *)
(* answered; requests of the other kinds are handed over at once.          *)
CanStart(c, i) ==
    /\ c[i].stage = "issued"
    /\ ConnKind(c, i) = "Consensus" =>
         \A j \in 1 .. i - 1 : ConnKind(c, j) = "Consensus" => Done(c, j)

(* The response to Flush waits for every response before it; the response  *)
(* to a Consensus request waits for the responses to the Consensus         *)
(* requests before it.                                                     *)
CanDeliver(c, i) ==
    /\ c[i].stage = "answered"
    /\ ConnKind(c, i) = "Flush" =>
         \A j \in 1 .. i - 1 : c[j].stage = "delivered"
    /\ ConnKind(c, i) = "Consensus" =>
         \A j \in 1 .. i - 1 :
            ConnKind(c, j) = "Consensus" => c[j].stage = "delivered"

(* the caller issues a request *)
ConnIssue ==
    /\ Len(conn) < MaxRequests
    /\ \E tag \in ConnTags :
        conn' = Append(conn, [tag |-> tag, stage |-> "issued"])
    /\ UNCHANGED <<op, cat, orig, arg, out, sync, last>>

(* the dispatcher hands a request to the application *)
ConnStart ==
    /\ \E i \in DOMAIN conn :
        /\ CanStart(conn, i)
        /\ conn' = [conn EXCEPT ![i].stage = "running"]
    /\ UNCHANGED <<op, cat, orig, arg, out, sync, last>>

(* the application completes a request, in any order *)
ConnAnswer ==
    /\ \E i \in DOMAIN conn :
        /\ conn[i].stage = "running"
        /\ conn' = [conn EXCEPT ![i].stage = "answered"]
    /\ UNCHANGED <<op, cat, orig, arg, out, sync, last>>

(* the dispatcher delivers a response to the caller *)
ConnDeliver ==
    /\ \E i \in DOMAIN conn :
        /\ CanDeliver(conn, i)
        /\ conn' = [conn EXCEPT ![i].stage = "delivered"]
    /\ UNCHANGED <<op, cat, orig, arg, out, sync, last>>

-----------------------------------------------------------------------------
(* The calls a dispatcher makes on one value.  orig is the value it holds  *)
(* at first, op the last call made, arg that call's argument, out what it  *)
(* returned and cat the category a narrowing aimed at.                     *)

NoValue == [none |-> TRUE]

Messages == Requests \cup Responses

NarrowedValues ==
    UNION {Narrowed(c, side) : c \in Categories, side \in {"Request", "Response"}}

WireValues == PbRequests \cup PbResponses

IsMessage(v) == "enum" \in DOMAIN v /\ v.enum \in {"Request", "Response"}

IsNarrowed(v) == "enum" \in DOMAIN v /\ v.enum \notin {"Request", "Response"}

IsWire(v) == "pb" \in DOMAIN v

Init ==
    /\ op = "init"
    /\ cat = "none"
    /\ orig \in Messages \cup NarrowedValues \cup WireValues
    /\ arg = NoValue
    /\ out = NoValue
    /\ sync = SyncStart
    /\ last = "none"
    /\ conn = <<>>

CallKind ==
    /\ op = "init"
    /\ IsMessage(orig)
    /\ IsRequest(orig)
    /\ op' = "kind"
    /\ arg' = orig
    /\ out' = kind(orig)
    /\ UNCHANGED <<cat, orig>>
    /\ UNCHANGED <<sync, last, conn>>

CallNarrow ==
    /\ op = "init"
    /\ IsMessage(orig)
    /\ \E c \in Categories :
        /\ op' = "narrow"
        /\ cat' = c
        /\ arg' = orig
        /\ out' = narrow(c, orig)
    /\ UNCHANGED orig
    /\ UNCHANGED <<sync, last, conn>>

(* widen what the narrowing returned *)
CallWidenNarrowed ==
    /\ op = "narrow"
    /\ out.ok
    /\ op' = "narrow_widen"
    /\ arg' = out.val
    /\ out' = widen(out.val)
    /\ UNCHANGED <<cat, orig>>
    /\ UNCHANGED <<sync, last, conn>>

CallWiden ==
    /\ op = "init"
    /\ IsNarrowed(orig)
    /\ op' = "widen"
    /\ cat' = CategoryOfEnum(orig.enum)
    /\ arg' = orig
    /\ out' = widen(orig)
    /\ UNCHANGED orig
    /\ UNCHANGED <<sync, last, conn>>

(* narrow what the widening returned, to any category *)
CallNarrowWidened ==
    /\ op = "widen"
    /\ \E d \in Categories :
        /\ op' = "widen_narrow"
        /\ cat' = d
        /\ arg' = out
        /\ out' = narrow(d, out)
    /\ UNCHANGED orig
    /\ UNCHANGED <<sync, last, conn>>

CallEncode ==
    /\ op = "init"
    /\ IsMessage(orig)
    /\ op' = "encode"
    /\ arg' = orig
    /\ out' = encode(orig)
    /\ UNCHANGED <<cat, orig>>
    /\ UNCHANGED <<sync, last, conn>>

(* decode what the encoding returned *)
CallDecodeEncoded ==
    /\ op = "encode"
    /\ op' = "encode_decode"
    /\ arg' = out
    /\ out' = decode(out)
    /\ UNCHANGED <<cat, orig>>
    /\ UNCHANGED <<sync, last, conn>>

CallDecode ==
    /\ op = "init"
    /\ IsWire(orig)
    /\ op' = "decode"
    /\ arg' = orig
    /\ out' = decode(orig)
    /\ UNCHANGED <<cat, orig>>
    /\ UNCHANGED <<sync, last, conn>>

Next ==
    \/ CallKind
    \/ CallNarrow
    \/ CallWidenNarrowed
    \/ CallWiden
    \/ CallNarrowWidened
    \/ CallEncode
    \/ CallDecodeEncoded
    \/ CallDecode

Spec == Init /\ [][Next]_vars

InitSync ==
    /\ op = "init"
    /\ cat = "none"
    /\ orig = NoValue
    /\ arg = NoValue
    /\ out = NoValue
    /\ sync = SyncStart
    /\ last = "none"
    /\ conn = <<>>

NextSync ==
    \/ EngineOffers
    \/ AppAnswersOffer
    \/ PeerSuppliesChunk
    \/ EngineDeliversChunk
    \/ AppAnswersChunk
    \/ FetchTimeout
    \/ EngineAsksInfo
    \/ AppAnswersInfo
    \/ EngineIssuesConsensus
    \/ AppAnswersConsensus

SpecSync == InitSync /\ [][NextSync]_vars

InitConn == InitSync

NextConn ==
    \/ ConnIssue
    \/ ConnStart
    \/ ConnAnswer
    \/ ConnDeliver

SpecConn == InitConn /\ [][NextConn]_vars

-----------------------------------------------------------------------------
(* Properties of the category partition.                                   *)

(* C1: Request::kind returns, for every Request, exactly the method kind   *)
(* its variant has in the table: InitChain, BeginBlock, DeliverTx,         *)
(* EndBlock, Commit -> Consensus; CheckTx -> Mempool; Info, Query, Echo -> *)
(* Info; the four snapshot variants -> Snapshot; Flush -> Flush.           *)
C1_KindTable ==
    op = "kind" =>
        /\ out \in MethodKinds
        /\ out = "Consensus" <=>
             orig.tag \in {"InitChain", "BeginBlock", "DeliverTx", "EndBlock",
                           "Commit"}
        /\ out = "Mempool" <=> orig.tag = "CheckTx"
        /\ out = "Info" <=> orig.tag \in {"Info", "Query", "Echo"}
        /\ out = "Snapshot" <=>
             orig.tag \in {"ListSnapshots", "OfferSnapshot",
                           "LoadSnapshotChunk", "ApplySnapshotChunk"}
        /\ out = "Flush" <=> orig.tag = "Flush"

C1_FlushKindIsFlush == op = "kind" /\ orig.tag = "Flush" /\ out = "Flush"

(* C2: narrowing a Request to category cat succeeds exactly when           *)
(* kind(request) = cat, and then yields the variant of that narrowed enum; *)
(* otherwise it returns the error value "wrong request type".  Commit is   *)
(* Consensus and does not narrow to Mempool; Flush narrows to nothing.     *)
C2_NarrowIffKind ==
    op = "narrow" /\ IsRequest(orig) =>
        /\ out.ok <=> kind(orig) = cat
        /\ out.ok => out.val.enum = CategoryEnum(cat, "Request")
        /\ ~out.ok => out.err = "wrong request type"
        /\ orig.tag = "Flush" => ~out.ok
        /\ orig.tag = "Commit" => (out.ok <=> cat = "Consensus")

C2_CommitNotMempool ==
    /\ op = "narrow"
    /\ orig = Unit("Request", "Commit")
    /\ cat = "Mempool"
    /\ out = Err("wrong request type")

(* C3: on requests, widening what a narrowing returned gives back the      *)
(* request; narrowing a widened value to its own category gives back the   *)
(* narrowed value and narrowing it to any other category fails; widening   *)
(* always yields a Request.                                                *)
C3_WidenNarrowInverse ==
    /\ op = "narrow_widen" /\ IsRequest(orig) => out = orig
    /\ op = "widen" /\ orig.enum = CategoryEnum(cat, "Request") =>
         out \in Requests
    /\ op = "widen_narrow" /\ IsRequest(arg) =>
         IF cat = CategoryOfEnum(orig.enum)
         THEN out = Ok(orig)
         ELSE ~out.ok

C3_SnapshotRoundTrip ==
    /\ op = "widen_narrow"
    /\ orig.enum = "SnapshotRequest"
    /\ orig.tag = "OfferSnapshot"
    /\ cat = "Snapshot"
    /\ out = Ok(orig)

(* C4: a Response narrows to category cat exactly when it is neither       *)
(* Exception nor Flush and cat is the kind of the request of the same      *)
(* name, hence to at most one category; widening the result gives the      *)
(* response back.                                                          *)
C4_ResponsePartition ==
    /\ op = "narrow" /\ ~IsRequest(orig) =>
         /\ out.ok <=>
              /\ orig.tag \notin {"Exception", "Flush"}
              /\ kind(Unit("Request", orig.tag)) = cat
         /\ out.ok => out.val.enum = CategoryEnum(cat, "Response")
    /\ op = "narrow_widen" /\ ~IsRequest(orig) => out = orig

C4_ExceptionHasNoCategory ==
    /\ op = "narrow"
    /\ orig.enum = "Response"
    /\ orig.tag = "Exception"
    /\ cat = "Info"
    /\ ~out.ok

-----------------------------------------------------------------------------
(* Properties of the wire codec.  The specification's decode error classes *)
(* are read off the message of the crate::Error the conversions build.     *)

DecodeErrorClass(e) ==
    CASE e.msg \in {"no request in proto", "no response in proto"} ->
           "MissingPayload"
      [] e.msg = "missing snapshot" -> "MissingNestedField"
      [] e.msg = "unknown snapshot chunk result" -> "UnknownEnumValue"
      [] OTHER -> "Malformed"

(* The wire struct inside the selector of a wire message. *)
Body(w) == w.value.v.body

IsWireOf(w, pb, tag) == w.pb = pb /\ w.value.some /\ w.value.v.oneof = tag

(* C5: decoding the encoding of any Request or Response succeeds and       *)
(* returns the message itself.                                             *)
C5_EncodeDecodeRoundTrip == op = "encode_decode" => out = Ok(orig)

C5_EchoPing ==
    /\ op = "encode_decode"
    /\ orig = Variant("Request", "Echo", [message |-> "ping"])
    /\ arg.value.v.body.message = "ping"
    /\ out = Ok(orig)

(* C6: encoding any Request or Response returns a wire message of the      *)
(* same side whose selector is set and selects the message's own variant.  *)
C6_EncodeSelectsOwnVariant ==
    op = "encode" =>
        /\ out.pb = orig.enum
        /\ out.value.some
        /\ out.value.v.oneof = orig.tag
        /\ out \in WireValues

C6_FlushSelected ==
    /\ op = "encode"
    /\ orig = Unit("Response", "Flush")
    /\ out.value = Some(Value("Flush", pb_default("ResponseFlush")))

(* C7 as stated: the error of decoding an ApplySnapshotChunk response with *)
(* a result outside 0..5 carries the offending integer, so two different   *)
(* out-of-range integers give two different errors.                        *)
C7_ErrorCarriesInteger ==
    op = "decode" /\ IsWireOf(orig, "Response", "ApplySnapshotChunk")
                  /\ Body(orig).result \notin 0 .. 5 =>
        /\ ~out.ok
        /\ \A n \in WireResults \ (0 .. 5) :
             n # Body(orig).result =>
               decode([orig EXCEPT !.value.v.body.result = n]) # out

(* C7 amended: decoding an ApplySnapshotChunk response with a result       *)
(* outside 0..5 fails with the one error "unknown snapshot chunk result",  *)
(* whatever the integer is; it never yields a known result.  Decoding 3    *)
(* yields Retry.                                                           *)
C7_UnknownResultRejected ==
    op = "decode" /\ IsWireOf(orig, "Response", "ApplySnapshotChunk") =>
        /\ Body(orig).result \notin 0 .. 5 =>
             /\ ~out.ok
             /\ out.err = Error_other("unknown snapshot chunk result")
             /\ DecodeErrorClass(out.err) = "UnknownEnumValue"
        /\ Body(orig).result = 3 => out.ok /\ out.val.data.result = "Retry"

C7_SixRejected ==
    /\ op = "decode"
    /\ IsWireOf(orig, "Response", "ApplySnapshotChunk")
    /\ Body(orig).result = 6
    /\ ~out.ok

(* C8: encode writes Unknown=0, Accept=1, Abort=2, Retry=3,                *)
(* RetrySnapshot=4, RejectSnapshot=5 and decode maps each of 0..5 back to  *)
(* the result of that number.                                              *)
ResultNumbers ==
    <<"Unknown", "Accept", "Abort", "Retry", "RetrySnapshot",
      "RejectSnapshot">>

C8_ResultIntegersFixed ==
    /\ op = "encode" /\ orig.enum = "Response"
                     /\ orig.tag = "ApplySnapshotChunk" =>
         /\ Body(out).result \in 0 .. 5
         /\ ResultNumbers[Body(out).result + 1] = orig.data.result
    /\ op = "decode" /\ IsWireOf(orig, "Response", "ApplySnapshotChunk")
                     /\ Body(orig).result \in 0 .. 5 =>
         /\ out.ok
         /\ out.val.data.result = ResultNumbers[Body(orig).result + 1]

C8_RejectSnapshotIsFive ==
    /\ op = "encode"
    /\ orig.enum = "Response"
    /\ orig.tag = "ApplySnapshotChunk"
    /\ orig.data.result = "RejectSnapshot"
    /\ Body(out).result = 5

(* C9: decoding a wire Request or Response whose selector is empty returns *)
(* the error "no request in proto" / "no response in proto".               *)
C9_EmptySelectorRejected ==
    op = "decode" /\ ~orig.value.some =>
        /\ ~out.ok
        /\ DecodeErrorClass(out.err) = "MissingPayload"
        /\ out.err = Error_other(IF orig.pb = "Request"
                                 THEN "no request in proto"
                                 ELSE "no response in proto")

C9_EmptyResponseRejected ==
    /\ op = "decode"
    /\ orig = [pb |-> "Response", value |-> None]
    /\ ~out.ok

(* C10: decoding an OfferSnapshot request without its snapshot fails with  *)
(* "missing snapshot" whatever the app_hash; it succeeds exactly when the  *)
(* snapshot is present and decodes, and then keeps the app_hash.           *)
C10_OfferSnapshotNeedsSnapshot ==
    op = "decode" /\ IsWireOf(orig, "Request", "OfferSnapshot") =>
        /\ ~Body(orig).snapshot.some =>
             /\ ~out.ok
             /\ out.err = Error_other("missing snapshot")
             /\ DecodeErrorClass(out.err) = "MissingNestedField"
        /\ out.ok <=>
             /\ Body(orig).snapshot.some
             /\ Snapshot_try_from(Body(orig).snapshot.v).ok
        /\ out.ok =>
             /\ out.val.data.app_hash = Body(orig).app_hash
             /\ out.val.data.snapshot = Body(orig).snapshot.v.raw

C10_MissingSnapshotRejected ==
    /\ op = "decode"
    /\ IsWireOf(orig, "Request", "OfferSnapshot")
    /\ ~Body(orig).snapshot.some
    /\ Body(orig).app_hash = <<1>>
    /\ ~out.ok

(* Whether a nested field of the selected wire struct is one its own      *)
(* decode rejects.                                                         *)
HasMalformedField(w) ==
    /\ w.value.some
    /\ LET b == Body(w)
       IN  \/ "raw" \in DOMAIN b /\ IsGarbage(b.raw)
           \/ /\ "events" \in DOMAIN b
              /\ \E i \in DOMAIN b.events : IsGarbage(b.events[i].raw)
           \/ /\ "snapshot" \in DOMAIN b
              /\ b.snapshot.some
              /\ IsGarbage(b.snapshot.v.raw)

(* C11: when an event of a BeginBlock response, the snapshot of an         *)
(* OfferSnapshot request or the payload of any variant fails to decode,    *)
(* decoding the enclosing Request / Response fails with that same error    *)
(* (class Malformed); it succeeds only when no nested field is rejected.   *)
C11_NestedFailurePropagates ==
    op = "decode" =>
        /\ HasMalformedField(orig) =>
             /\ ~out.ok
             /\ out.err = leaf_try_from([raw |-> Garbage]).err
             /\ DecodeErrorClass(out.err) = "Malformed"
        /\ out.ok /\ orig.value.v.oneof = "BeginBlock" /\ orig.pb = "Response" =>
             Len(out.val.data.events) = Len(Body(orig).events)

C11_BadEventRejected ==
    /\ op = "decode"
    /\ IsWireOf(orig, "Response", "BeginBlock")
    /\ Len(Body(orig).events) = 2
    /\ ~IsGarbage(Body(orig).events[1].raw)
    /\ IsGarbage(Body(orig).events[2].raw)
    /\ ~out.ok

KnownDecodeErrors ==
    {Error_other(m) :
       m \in {"no request in proto", "no response in proto",
              "missing snapshot", "unknown snapshot chunk result",
              "malformed field"}}

(* C12: decoding any wire Request or Response never panics: it returns     *)
(* either Ok of a message that encodes back to the wire value, or Err of   *)
(* one of the errors the conversions build, each in one of the four        *)
(* decode error classes.                                                   *)
C12_DecodeNeverPanics ==
    op \in {"decode", "encode_decode"} =>
        /\ "ok" \in DOMAIN out
        /\ out # Error_from_Infallible(out)
        /\ out.ok => out.val \in Messages /\ encode(out.val) = arg
        /\ ~out.ok =>
             /\ out.err \in KnownDecodeErrors
             /\ DecodeErrorClass(out.err) \in
                  {"MissingPayload", "MissingNestedField",
                   "UnknownEnumValue", "Malformed"}
             /\ \/ ~arg.value.some
                \/ HasMalformedField(arg)
                \/ IsWireOf(arg, "Request", "OfferSnapshot")
                     /\ ~Body(arg).snapshot.some
                \/ IsWireOf(arg, "Response", "ApplySnapshotChunk")
                     /\ Body(arg).result \notin 0 .. 5

C12_NegativeResultIsAnError ==
    /\ op = "decode"
    /\ IsWireOf(orig, "Response", "ApplySnapshotChunk")
    /\ Body(orig).result < 0
    /\ out = Err(Error_other("unknown snapshot chunk result"))

-----------------------------------------------------------------------------
(* The snapshot sync protocol: the claims below are checked under SpecSync. *)

C14_AbortTerminates ==
    /\ sync.awaiting = "chunk" =>
         \A f \in RefetchLists, j \in SenderLists :
           LET r == Answer("Abort", f, j) IN
             LET t == OnChunkResponse(sync, AppAnswer(r))
             IN  t.phase = "Aborted" /\ t.awaiting = "none"
    /\ last = "Abort" => sync.phase = "Aborted"
    /\ sync.phase = "Aborted" =>
         /\ sync.awaiting = "none"
         /\ ~ENABLED EngineOffers
         /\ ~ENABLED EngineDeliversChunk
         /\ ~ENABLED NextSync

(* aborted while another candidate from a peer in good standing remains *)
C14_AbortedWithCandidatesLeft ==
    /\ last = "Abort"
    /\ sync.phase = "Aborted"
    /\ \E o \in sync.offers :
         o.snapshot # sync.snapshot /\ o.sender \notin sync.banned

(* C15: from every state in which the application owes a chunk answer,    *)
(* an answer with result Unknown leads to the state the same answer with   *)
(* result Abort leads to, and that state is Aborted.                       *)
C15_UnknownIsAbort ==
    /\ sync.awaiting = "chunk" =>
         \A f \in RefetchLists, j \in SenderLists :
           LET r == Answer("Unknown", f, j) IN
             LET t == OnChunkResponse(sync, AppAnswer(r))
                 u == OnChunkResponse(sync,
                        AppAnswer([r EXCEPT !.result = "Abort"]))
             IN  t = u /\ t.phase = "Aborted"
    /\ last = "Unknown" => sync.phase = "Aborted" /\ ~ENABLED NextSync

(* the application answered Unknown to the third chunk *)
C15_AbortedAfterUnknown ==
    /\ last = "Unknown"
    /\ sync.phase = "Aborted"
    /\ sync.chunk.index = 2
    /\ sync.applied = {0, 1}

(* C16: an Accept answer that lists no chunk to refetch keeps the protocol *)
(* in Applying on the same snapshot, records the delivered chunk as        *)
(* applied and moves on: the next chunk is the next one waiting to be      *)
(* reapplied or, when there is none, the lowest chunk not applied yet,     *)
(* which is the following index in an unbroken run.  The engine never      *)
(* delivers a chunk that is applied.                                       *)
C16_AcceptProceeds ==
    /\ sync.awaiting = "chunk" => sync.chunk.index \notin sync.applied
    /\ sync.awaiting = "chunk" =>
         \A s \in SenderLists :
           LET r == Answer("Accept", <<>>, s) IN
             LET t == OnChunkResponse(sync, AppAnswer(r))
                 rest == Without(sync.queue, {sync.chunk.index})
             IN  /\ t.phase = "Applying"
                 /\ t.awaiting = "none"
                 /\ t.snapshot = sync.snapshot
                 /\ t.applied = sync.applied \cup {sync.chunk.index}
                 /\ NextChunk(t) # sync.chunk.index
                 /\ NextChunk(t) \notin t.applied
                 /\ NextChunk(t) =
                      IF rest # <<>> THEN Head(rest)
                      ELSE IF \E i \in ChunkRange : i \notin t.applied
                           THEN CHOOSE i \in ChunkRange \ t.applied :
                                  \A j \in ChunkRange \ t.applied : i <= j
                           ELSE MaxChunks
                 /\ rest = <<>> /\ sync.applied = 0 .. sync.chunk.index - 1 =>
                      NextChunk(t) = sync.chunk.index + 1

(* chunk 0 was accepted: chunk 1 is next *)
C16_AcceptedFirstChunk ==
    /\ last = "Accept"
    /\ sync.phase = "Applying"
    /\ sync.awaiting = "none"
    /\ sync.chunk.index = 0
    /\ sync.applied = {0}
    /\ sync.queue = <<>>
    /\ NextChunk(sync) = 1

(* the state once the chunks of a refetch list are accepted in turn *)
AfterRefetch(t, listed) ==
    [t EXCEPT !.applied = @ \cup Range(listed),
              !.queue = Without(@, Range(listed))]

(* C17: a Retry answer keeps the protocol in Applying on the same         *)
(* snapshot, applies no chunk, and leaves the delivered chunk to be        *)
(* applied again: it is the next chunk once the listed chunks are          *)
(* reapplied, or one of the listed chunks itself.                          *)
C17_RetrySameChunk ==
    sync.awaiting = "chunk" =>
      \A f \in RefetchLists, j \in SenderLists :
        LET r == Answer("Retry", f, j) IN
          LET t == OnChunkResponse(sync, AppAnswer(r))
              listed == Dedup(r.refetch_chunks)
          IN  /\ t.phase = "Applying"
              /\ t.awaiting = "none"
              /\ t.snapshot = sync.snapshot
              /\ t.applied \subseteq sync.applied
              /\ sync.chunk.index \notin t.applied
              /\ listed = <<>> => NextChunk(t) = sync.chunk.index
              /\ IF sync.chunk.index \in Range(listed)
                 THEN sync.chunk.index \in Range(t.queue)
                 ELSE NextChunk(AfterRefetch(t, listed)) = sync.chunk.index

(* the application answered Retry to chunk 1: chunk 1 is next again *)
C17_SecondChunkAgain ==
    /\ last = "Retry"
    /\ sync.phase = "Applying"
    /\ sync.awaiting = "none"
    /\ sync.chunk.index = 1
    /\ sync.applied = {0}
    /\ sync.queue = <<>>
    /\ NextChunk(sync) = 1

(* C18: a RetrySnapshot answer makes the engine offer the same snapshot   *)
(* again (it is in Offered, waiting for the answer to that offer, and can  *)
(* offer no other candidate); every chunk is to be applied anew, and the   *)
(* engine keeps each chunk it holds unless the answer lists it in          *)
(* refetch_chunks or its sender is rejected.  When the offer is accepted   *)
(* the kept chunks are still there.                                        *)
C18_RetrySnapshotReoffers ==
    /\ sync.phase = "Offered" =>
         sync.awaiting = "offer" /\ ~ENABLED EngineOffers
    /\ sync.awaiting = "chunk" =>
         \A f \in RefetchLists, j \in SenderLists :
           LET r == Answer("RetrySnapshot", f, j) IN
             LET t == OnChunkResponse(sync, AppAnswer(r))
                 rejected == sync.banned \cup Range(r.reject_senders)
             IN  /\ t.phase = "Offered"
                 /\ t.awaiting = "offer"
                 /\ t.snapshot = sync.snapshot
                 /\ t.applied = {}
                 /\ \A i \in ChunkRange :
                      t.fetched[i] =
                        IF \/ i \in Range(r.refetch_chunks)
                           \/ sync.fetched[i] \in rejected
                        THEN "none"
                        ELSE sync.fetched[i]
                 /\ OnOfferResponse(t, TRUE).phase = "Applying"
                 /\ OnOfferResponse(t, TRUE).snapshot = sync.snapshot
                 /\ OnOfferResponse(t, TRUE).fetched = t.fetched

(* snapshot 1 is offered again after RetrySnapshot rejected peer q: the   *)
(* chunk fetched from p is kept, the one from q is gone                    *)
C18_ReofferedWithChunkKept ==
    /\ last = "RetrySnapshot"
    /\ sync.phase = "Offered"
    /\ sync.awaiting = "offer"
    /\ sync.snapshot = 1
    /\ sync.banned = {"q"}
    /\ sync.fetched[0] = "p"
    /\ sync.fetched[1] = "none"
    /\ sync.applied = {}

(* C19: a RejectSnapshot answer abandons the snapshot: the protocol is in *)
(* AwaitingNewOffer with no snapshot, the candidates left do not include   *)
(* the rejected snapshot, and offering any of them is a step the engine    *)
(* can take, leading to Offered on a different snapshot.                   *)
C19_RejectSnapshotAwaitsNewOffer ==
    /\ last = "RejectSnapshot" /\ sync.phase = "AwaitingNewOffer"
          /\ sync.offers # {} => ENABLED EngineOffers
    /\ sync.awaiting = "chunk" =>
         \A f \in RefetchLists, j \in SenderLists :
           LET r == Answer("RejectSnapshot", f, j) IN
             LET t == OnChunkResponse(sync, AppAnswer(r))
             IN  /\ t.phase = "AwaitingNewOffer"
                 /\ t.awaiting = "none"
                 /\ t.snapshot = 0
                 /\ t.applied = {}
                 /\ t.offers =
                      {o \in sync.offers :
                         /\ o.snapshot # sync.snapshot
                         /\ o.sender \notin Range(r.reject_senders)}
                 /\ \A o \in t.offers :
                      /\ OfferSnapshot(t, o).phase = "Offered"
                      /\ OfferSnapshot(t, o).snapshot # sync.snapshot

(* snapshot 2 is on offer after the application rejected snapshot 1 while *)
(* applying its chunks                                                     *)
C19_OtherSnapshotOffered ==
    /\ last = "RejectSnapshot"
    /\ sync.phase = "Offered"
    /\ sync.snapshot = 2
    /\ \A o \in sync.offers : o.snapshot = 2

(* C20: whatever the result, the applied set after an answer is the one   *)
(* the same answer without reject_senders gives, and so is the refetch     *)
(* queue; the listed senders are banned; no offer of theirs remains; no    *)
(* chunk of a banned sender is held unless it is applied; no chunk of a    *)
(* banned sender is fetched or delivered later.                            *)
C20_RejectSendersSparesApplied ==
    /\ \A i \in ChunkRange :
         sync.fetched[i] \in sync.banned => i \in sync.applied
    /\ \A o \in sync.offers : o.sender \notin sync.banned
    /\ sync.awaiting = "chunk" => sync.chunk.sender \notin sync.banned
    /\ sync.awaiting = "chunk" =>
         \A r \in SyncAnswers :
           LET t == OnChunkResponse(sync, AppAnswer(r))
               u == OnChunkResponse(sync,
                      AppAnswer([r EXCEPT !.reject_senders = <<>>]))
           IN  /\ t.applied = u.applied
               /\ t.queue = u.queue
               /\ t.banned = sync.banned \cup Range(r.reject_senders)
               /\ r.result \in {"Accept", "Retry"} =>
                    sync.applied \ Range(r.refetch_chunks) \subseteq t.applied
               /\ \A o \in t.offers : o.sender \notin t.banned
               /\ \A i \in ChunkRange :
                    /\ t.fetched[i] \in t.banned => i \in t.applied
                    /\ t.fetched[i] # u.fetched[i] =>
                         /\ u.fetched[i] \in Range(r.reject_senders)
                         /\ t.fetched[i] = "none"

(* peer p is banned after its chunk 0 was applied: chunk 0 stands, the    *)
(* chunk 1 it had supplied is gone and so are its offers                   *)
C20_AppliedChunkOfBannedPeer ==
    /\ sync.phase = "Applying"
    /\ sync.banned = {"p"}
    /\ sync.chunk = [index |-> 1, sender |-> "p"]
    /\ sync.applied = {0}
    /\ sync.fetched[0] = "p"
    /\ sync.fetched[1] = "none"
    /\ sync.offers # {}

-----------------------------------------------------------------------------
(* The lists of an ApplySnapshotChunk response: checked under Spec.        *)

IsApplySnapshotChunk(m) ==
    IsMessage(m) /\ m.enum = "Response" /\ m.tag = "ApplySnapshotChunk"

SameSenders(a, b) ==
    {a[i] : i \in DOMAIN a} = {b[i] : i \in DOMAIN b}

(* C27 as stated: refetch_chunks survives encode and decode as it is, and *)
(* reject_senders is a set: it holds no peer twice, and a response that    *)
(* lists the same senders in any other way is the same response.           *)
C27_RejectSendersIsASet ==
    op = "encode_decode" /\ IsApplySnapshotChunk(orig) =>
      /\ out.ok
      /\ out.val.data.refetch_chunks = orig.data.refetch_chunks
      /\ \A i, j \in DOMAIN out.val.data.reject_senders :
           i # j => out.val.data.reject_senders[i]
                      # out.val.data.reject_senders[j]
      /\ \A s \in SeqsUpTo(PeerIds, MaxSenders) :
           SameSenders(s, orig.data.reject_senders) =>
             [orig EXCEPT !.data.reject_senders = s] = orig

(* C27: refetch_chunks and reject_senders are both lists that encode and  *)
(* decode preserve exactly, order and repetitions included, on the wire    *)
(* and in the decoded value; responses that list the senders differently,  *)
(* even the same senders, are different responses and stay different       *)
(* through encode and decode.                                              *)
C27_ListsPreserved ==
    /\ op = "encode_decode" /\ IsApplySnapshotChunk(orig) =>
         /\ Body(arg).refetch_chunks = orig.data.refetch_chunks
         /\ Body(arg).reject_senders = orig.data.reject_senders
         /\ out.ok
         /\ out.val.data.refetch_chunks = orig.data.refetch_chunks
         /\ out.val.data.reject_senders = orig.data.reject_senders
         /\ \A s \in SeqsUpTo(PeerIds, MaxSenders) :
              s # orig.data.reject_senders =>
                LET other == [orig EXCEPT !.data.reject_senders = s]
                IN  /\ other # orig
                    /\ encode(other) # arg
                    /\ decode(encode(other)) # out
    /\ op = "decode" /\ IsWireOf(orig, "Response", "ApplySnapshotChunk")
          /\ out.ok =>
         /\ out.val.data.refetch_chunks = Body(orig).refetch_chunks
         /\ out.val.data.reject_senders = Body(orig).reject_senders

(* a response that repeats a chunk and lists q before p comes back as it  *)
(* was                                                                     *)
C27_RepeatedChunkAndSendersKept ==
    /\ op = "encode_decode"
    /\ IsApplySnapshotChunk(orig)
    /\ orig.data.refetch_chunks = <<1, 1>>
    /\ orig.data.reject_senders = <<"q", "p">>
    /\ out = Ok(orig)

(* C28: a wire ApplySnapshotChunk response whose result is the zero value *)
(* decodes, to result Unknown, with its lists; the wire struct with no     *)
(* field present decodes to the default response, which has result         *)
(* Unknown and empty lists and encodes to that wire struct.                *)
C28_AbsentResultIsUnknown ==
    /\ response_ApplySnapshotChunk_default =
         [result |-> "Unknown", refetch_chunks |-> <<>>,
          reject_senders |-> <<>>]
    /\ op = "decode" /\ IsWireOf(orig, "Response", "ApplySnapshotChunk")
          /\ Body(orig).result = 0 =>
         /\ out.ok
         /\ out.val.data.result = "Unknown"
         /\ out.val.data.refetch_chunks = Body(orig).refetch_chunks
         /\ out.val.data.reject_senders = Body(orig).reject_senders
         /\ Body(orig) = pb_ResponseApplySnapshotChunk_default =>
              out.val.data = response_ApplySnapshotChunk_default
    /\ op = "encode" /\ IsApplySnapshotChunk(orig)
          /\ orig.data = response_ApplySnapshotChunk_default =>
         Body(out) = pb_ResponseApplySnapshotChunk_default

(* the wire response with no field present was decoded *)
C28_EmptyWireResponseDecoded ==
    /\ op = "decode"
    /\ IsWireOf(orig, "Response", "ApplySnapshotChunk")
    /\ Body(orig) = pb_ResponseApplySnapshotChunk_default
    /\ out.ok
    /\ out.val.data.result = "Unknown"

(* C21: the engine asks Info only in Applying, once every chunk is applied *)
(* and the application's last answer was Accept; Info is then the only     *)
(* request in flight.  The answer completes the sync exactly when its      *)
(* height and its app hash both equal the verified header's; any other     *)
(* answer fails the sync, and a failed sync takes no further step: the     *)
(* snapshot is not offered, applied or checked again.                      *)
C21_CompletionCheck ==
    /\ sync.awaiting = "info" =>
         /\ sync.phase = "Applying"
         /\ sync.applied = ChunkRange
         /\ sync.queue = <<>>
         /\ last = "Accept"
         /\ sync.inflight = <<"Info">>
         /\ \A info \in InfoAnswers :
              LET t == OnInfoResponse(sync, info)
                  h == VerifiedHeader(sync.snapshot)
                  match == /\ info.last_block_height = h.last_block_height
                           /\ info.last_block_app_hash = h.last_block_app_hash
              IN  /\ t.phase = IF match THEN "Completed" ELSE "Failed"
                  /\ t.awaiting = "none"
                  /\ t.snapshot = sync.snapshot
                  /\ t.applied = sync.applied
    /\ sync.phase = "Completed" =>
         /\ sync.info = VerifiedHeader(sync.snapshot)
         /\ sync.applied = ChunkRange
         /\ sync.accepted = sync.snapshot
    /\ sync.phase = "Failed" =>
         /\ sync.info # NoInfo
         /\ sync.info # VerifiedHeader(sync.snapshot)
         /\ ~ENABLED NextSync

(* the Info response carried the verified height and another app hash:    *)
(* the sync failed                                                         *)
C21_FailedOnAppHash ==
    /\ sync.phase = "Failed"
    /\ sync.info # NoInfo
    /\ sync.info.last_block_height
         = VerifiedHeader(sync.snapshot).last_block_height
    /\ sync.info.last_block_app_hash
         # VerifiedHeader(sync.snapshot).last_block_app_hash

(* C22: a request of the Consensus category is in flight only in          *)
(* Completed and can be issued in no other state; a request of the         *)
(* Snapshot category is in flight only in Offered or Applying, so never    *)
(* together with, or after the start of, Consensus traffic; at most one    *)
(* request is in flight at any moment; once Completed, no snapshot is      *)
(* offered and no chunk is delivered.                                      *)
C22_SnapshotExcludesConsensus ==
    /\ Len(sync.inflight) <= 1
    /\ \A i \in DOMAIN sync.inflight :
         /\ sync.inflight[i] \in CategoryTags("Consensus", "Request") =>
              /\ sync.phase = "Completed"
              /\ sync.awaiting = "consensus"
         /\ sync.inflight[i] \in CategoryTags("Snapshot", "Request") =>
              /\ sync.phase \in {"Offered", "Applying"}
              /\ sync.awaiting \in {"offer", "chunk"}
    /\ sync.awaiting = "consensus" =>
         /\ sync.phase = "Completed"
         /\ sync.inflight # <<>>
         /\ sync.inflight[1] \in CategoryTags("Consensus", "Request")
    /\ sync.awaiting \in {"offer", "chunk"} =>
         /\ sync.inflight # <<>>
         /\ sync.inflight[1] \in CategoryTags("Snapshot", "Request")
    /\ sync.phase # "Completed" => ~ENABLED EngineIssuesConsensus
    /\ sync.phase = "Completed" =>
         /\ ~ENABLED EngineOffers
         /\ ~ENABLED EngineDeliversChunk
         /\ sync.info = VerifiedHeader(sync.snapshot)

(* normal operation: a Commit is in flight after the sync of snapshot 2   *)
(* completed                                                               *)
C22_CommitAfterCompleted ==
    /\ sync.phase = "Completed"
    /\ sync.snapshot = 2
    /\ sync.inflight = <<"Commit">>

(* C25: whenever the engine is in Applying and the next chunk it needs    *)
(* has not been supplied, the fetch timeout leads to the state a           *)
(* RejectSnapshot answer without lists would lead to: AwaitingNewOffer,    *)
(* no snapshot, nothing applied, the timed-out snapshot no longer a        *)
(* candidate.  Each remaining candidate can be offered from there and is   *)
(* a different snapshot; after a timeout with a candidate left the offer   *)
(* step is enabled.                                                        *)
C25_FetchTimeoutRejects ==
    /\ last = "Timeout" /\ sync.phase = "AwaitingNewOffer"
          /\ sync.offers # {} => ENABLED EngineOffers
    /\ ENABLED FetchTimeout =>
         LET t == OnFetchTimeout(sync)
             asked == [sync EXCEPT
                         !.awaiting = "chunk",
                         !.inflight = Append(@, "ApplySnapshotChunk")]
             rejected ==
                 OnChunkResponse(asked,
                     AppAnswer(Answer("RejectSnapshot", <<>>, <<>>)))
         IN  /\ sync.phase = "Applying"
             /\ t = rejected
             /\ t.phase = "AwaitingNewOffer"
             /\ t.awaiting = "none"
             /\ t.inflight = <<>>
             /\ t.snapshot = 0
             /\ t.applied = {}
             /\ t.banned = sync.banned
             /\ t.offers = {o \in sync.offers : o.snapshot # sync.snapshot}
             /\ \A o \in t.offers :
                  /\ o.sender \notin t.banned
                  /\ OfferSnapshot(t, o).phase = "Offered"
                  /\ OfferSnapshot(t, o).awaiting = "offer"
                  /\ OfferSnapshot(t, o).snapshot # sync.snapshot

(* snapshot 2 is on offer after the fetch of a chunk of snapshot 1 timed  *)
(* out                                                                     *)
C25_OfferedAfterTimeout ==
    /\ last = "Timeout"
    /\ sync.phase = "Offered"
    /\ sync.snapshot = 2
    /\ sync.inflight = <<"OfferSnapshot">>
    /\ \A o \in sync.offers : o.snapshot = 2

(* C26: an ApplySnapshotChunk request is outstanding only in Applying,    *)
(* and delivering one is enabled in no other state; in Applying the        *)
(* application has accepted the offer of the current snapshot; while an    *)
(* offer is unanswered nothing is accepted; accepting the offer leads to   *)
(* Applying on the offered snapshot and rejecting it leads to              *)
(* AwaitingNewOffer with the snapshot dropped, never to Applying.          *)
C26_ChunksOnlyInApplying ==
    /\ \/ sync.awaiting = "chunk"
       \/ \E i \in DOMAIN sync.inflight :
             sync.inflight[i] = "ApplySnapshotChunk"
       => /\ sync.phase = "Applying"
          /\ sync.chunk # NoChunk
    /\ sync.phase # "Applying" =>
         /\ ~ENABLED EngineDeliversChunk
         /\ sync.awaiting # "chunk"
         /\ sync.phase \in {"NoSnapshot", "Offered", "AwaitingNewOffer",
                            "Aborted", "Completed", "Failed"}
    /\ sync.phase = "Applying" =>
         /\ sync.snapshot \in SnapshotIds
         /\ sync.accepted = sync.snapshot
    /\ sync.phase \in {"NoSnapshot", "Offered", "AwaitingNewOffer"} =>
         sync.accepted = 0
    /\ sync.awaiting = "offer" =>
         LET yes == OnOfferResponse(sync, TRUE)
             no == OnOfferResponse(sync, FALSE)
         IN  /\ sync.phase = "Offered"
             /\ yes.phase = "Applying"
             /\ yes.accepted = sync.snapshot
             /\ yes.snapshot = sync.snapshot
             /\ no.phase = "AwaitingNewOffer"
             /\ no.accepted = 0
             /\ \A o \in no.offers : o.snapshot # sync.snapshot

(* chunk 0 of snapshot 2 is delivered after snapshot 1 was abandoned and  *)
(* the application accepted the offer of snapshot 2                        *)
C26_ChunkOfSecondOffer ==
    /\ sync.phase = "Applying"
    /\ sync.awaiting = "chunk"
    /\ sync.snapshot = 2
    /\ sync.accepted = 2
    /\ sync.chunk.index = 0
    /\ sync.applied = {}
    /\ \A o \in sync.offers : o.snapshot = 2

(* C23: on a connection, once the response to a Flush is delivered the    *)
(* response to every request issued before it is delivered, whatever the   *)
(* order in which those requests were handed over and completed; while a   *)
(* response to an earlier request is outstanding the Flush response        *)
(* cannot be delivered, and once none is outstanding it can.               *)
C23_FlushBarrier ==
    \A i \in DOMAIN conn :
       conn[i].tag = "Flush" =>
          LET earlier == \A j \in 1 .. i - 1 : conn[j].stage = "delivered"
          IN  /\ conn[i].stage = "delivered" => earlier
              /\ ~earlier => ~CanDeliver(conn, i)
              /\ conn[i].stage = "answered" /\ earlier => CanDeliver(conn, i)

(* A and B were issued before Flush; B's response is delivered while A is *)
(* still running, and the answered Flush is held back                      *)
C23_FlushHeldBack ==
    /\ Len(conn) = 3
    /\ conn[1].tag # "Flush" /\ conn[1].stage = "running"
    /\ conn[2].tag # "Flush" /\ conn[2].stage = "delivered"
    /\ conn[3].tag = "Flush" /\ conn[3].stage = "answered"

IsConsensus(c, i) == c[i].tag \in CategoryTags("Consensus", "Request")

(* C24: on a connection at most one Consensus request is running at any   *)
(* moment; a Consensus request is handed over only when every Consensus    *)
(* request issued before it is answered, so they are answered in issue     *)
(* order, and their responses are delivered in issue order.  A Mempool or  *)
(* Info request can be handed over as soon as it is issued and its         *)
(* response delivered as soon as it exists, whatever the Consensus         *)
(* requests around it are doing.                                           *)
C24_ConsensusInIssueOrder ==
    /\ Cardinality({i \in DOMAIN conn :
          IsConsensus(conn, i) /\ conn[i].stage = "running"}) <= 1
    /\ \A i, j \in DOMAIN conn :
         i < j /\ IsConsensus(conn, i) /\ IsConsensus(conn, j) =>
            /\ conn[j].stage # "issued" => Done(conn, i)
            /\ conn[j].stage = "delivered" => conn[i].stage = "delivered"
            /\ ~Done(conn, i) => ~CanStart(conn, j)
    /\ \A i \in DOMAIN conn :
         conn[i].tag \in CategoryTags("Mempool", "Request")
                           \cup CategoryTags("Info", "Request") =>
            /\ conn[i].stage = "issued" => CanStart(conn, i)
            /\ conn[i].stage = "answered" => CanDeliver(conn, i)

(* a CheckTx issued after a DeliverTx has its response delivered while    *)
(* the DeliverTx is running and the Commit issued last waits its turn      *)
C24_CheckTxOvertakes ==
    /\ Len(conn) = 3
    /\ conn[1].tag = "DeliverTx" /\ conn[1].stage = "running"
    /\ conn[2].tag = "CheckTx" /\ conn[2].stage = "delivered"
    /\ conn[3].tag = "Commit" /\ conn[3].stage = "issued"

====
